---- MODULE Spec2Model ----
(***************************************************************************)
(* A model of lc (src/lc.c): the driver main, the dispatcher use_opts and  *)
(* the four scan strategies count_all, count_bytes, count_lines_and_bytes  *)
(* and count_words, each stepped one read() at a time.                     *)
(*                                                                         *)
(* Representation.                                                         *)
(*  - A byte is a number 0..255.  A read buffer block is a sequence of     *)
(*    bytes; buffer offset k of the C code is index k+1 here.              *)
(*  - A uintmax_t is kept as the representative of its residue class       *)
(*    modulo 2^64 that lies nearest 0: the model value -1 stands for       *)
(*    2^64-1 (what `sum_bytes += (uintmax_t)bytes_read` leaves after a     *)
(*    read() that returned -1).  ULE compares two such values as the       *)
(*    unsigned numbers they stand for.                                     *)
(*  - MAXSIZE, 65205 in src/lc.c:55, is scaled down; the factor 6 of the   *)
(*    expect_long threshold is the program's.                              *)
(***************************************************************************)
EXTENDS Integers, Sequences, FiniteSets, TLC

VARIABLES
    lc,          \* struct lc_conf: opt_bytes, opt_lines, opt_words
    li,          \* struct lc_info: the per-scan counters and the totals
    nargs,       \* argc after `argc -= optind`: the number of file arguments
    argc,        \* file arguments main's loop has not yet taken
    is_total,    \* main's is_total
    pc,          \* where the process is: "stdin", "loop", "read", "ret", "exit"
    strategy,    \* the scan function use_opts called for the current source
    st,          \* what fstat() reported: [reg, size]
    have_space,  \* count_all / count_words: have_space
    mst,         \* count_all / count_words: mbstate_t, the bytes of a pending prefix
    sum_bytes,   \* count_all / count_lines_and_bytes: sum_bytes
    expect_long, \* count_lines_and_bytes: expect_long
    acc,         \* count_lines_and_bytes: lowest and highest buffer offset the
                 \* last pass of the read loop touched
    fd,          \* the current descriptor: "none", "open", "closed"
    ebadf,       \* close() calls issued on a descriptor that was already closed
    out,         \* stdout: the lines printed so far
    errmsg,      \* stderr: the diagnostic printed, "" if none
    status,      \* exit status: "running", "ok", "failure", "signal"
    opened,      \* open() calls made
    scanned,     \* sources for which use_opts was called
    budget,      \* read() calls that may still deliver generated data
    fails,       \* read() calls that may still fail
    lazy,        \* TRUE: the sources generate their bytes read by read
    whole,       \* lazy = FALSE: the content every source holds
    pos,         \* bytes of the current source delivered so far
    flags,       \* history: lc as getopt() left it
    nreads,      \* history: read() calls of this scan that delivered data
    gnl,         \* history: 0x0A bytes delivered in this scan
    gruns,       \* history: maximal runs of non-whitespace delivered in this scan
    gws,         \* history: the last delivered byte was whitespace (or none yet)
    gsum,        \* history: sum of the lengths of the successful reads of this scan
    nfail,       \* history: read() calls of this scan that returned -1
    eisdir,      \* TRUE: the sources are directories, read() on them fails
    bw,          \* history: num_lines and sum_bytes of count_lines_and_bytes
                 \* had every pass of this scan taken the bytewise path
    fresh        \* history: the struct and the locals this scan would have in
                 \* a process whose first source it is

vars == <<lc, li, nargs, argc, is_total, pc, strategy, st, have_space, mst,
          sum_bytes, expect_long, acc, fd, ebadf, out, errmsg, status, opened,
          scanned, budget, fails, lazy, whole, pos, flags, nreads,
          gnl, gruns, gws, gsum, nfail, eisdir, bw, fresh>>

----------------------------------------------------------------------------
(* Bounds of the model. *)

\* The read buffer size (MAXSIZE is 65205 in the program), scaled.
MAXSIZE == 3
\* File arguments on the command line.
MaxFiles == 2
\* read() calls that deliver generated data, in a run on standard input and
\* in a run on file arguments.
MaxReads == 4
MaxDriverReads == 2
\* read() calls that fail in a run.
MaxFails == 1
\* Failed read() calls the model follows on a directory; the read loops put
\* no bound on them.
MaxDirFails == 2
\* Largest st_size a regular file declares.
MaxSize == 1
\* Longest content of a source whose content is fixed in advance.
MaxLen == 3

\* The bytes a source of fixed content holds: NUL, SOH, \n, \r, space, 'a', and
\* two bytes above 0x7f (0xE3 0x80 0x80 is U+3000 in UTF-8).
Byte == {0, 1, 10, 13, 32, 97, 128, 227}
\* The bytes a source that generates its data read by read delivers.
LazyByte == {10, 13, 97}

Blocks(B, n) == UNION {[1..k -> B] : k \in 1..n}
Streams == {<<>>} \cup Blocks(Byte, MaxLen)
LazyBlocks == Blocks(LazyByte, MAXSIZE)

----------------------------------------------------------------------------
(* The macros and the libc functions the scan loops call. *)

\* A char holding byte b, as the int the macros see (char is signed on the
\* usual targets; the three macros give the same answers if it is not).
SChar(b) == IF b >= 128 THEN b - 256 ELSE b

\* #define is_ascii(x) (!(x & ~0x7f))
is_ascii(x) == x >= 0 /\ x <= 127

\* #define is_print(x) (((unsigned int)x - 0x20) < 0x5f): below 0x20 the
\* unsigned difference wraps to a huge value.
is_print(x) == x >= 32 /\ x - 32 < 95

\* is_space without its `x == ' '` half.
is_space_no_blank(x) == (x - 9) < 5

\* #define is_space(x) ((x == ' ' || ((x - '\t') < 5))): a signed comparison.
is_space(x) == x = 32 \/ (x - 9) < 5

\* The locale mbrtowc() and iswspace() work in.  main never calls
\* setlocale(), so the process stays in the "C" locale it starts in.
Locale == "C"

\* iswspace() taking every value above 0x7f for white space as well.
iswspace_high(wc) == wc \in {9, 10, 11, 12, 13, 32} \/ wc >= 128

\* iswspace(): the "C" locale knows the six ASCII white-space characters; a
\* UTF-8 locale also U+3000 (and others outside the modelled bytes).
iswspace(wc) ==
    \/ wc \in {9, 10, 11, 12, 13, 32}
    \/ Locale = "UTF-8" /\ wc \in {133, 12288}

\* The length of the UTF-8 sequence lead byte b announces, 0 if b cannot lead.
Utf8Len(b) ==
    IF b < 128 THEN 1
    ELSE IF b >= 194 /\ b <= 223 THEN 2
    ELSE IF b >= 224 /\ b <= 239 THEN 3
    ELSE IF b >= 240 /\ b <= 244 THEN 4
    ELSE 0

IsCont(b) == b >= 128 /\ b <= 191

RECURSIVE Utf8Value(_, _, _)
Utf8Value(s, i, v) ==
    IF i > Len(s) THEN v ELSE Utf8Value(s, i + 1, v * 64 + (s[i] - 128))

Utf8Lead(b) ==
    IF b < 128 THEN b
    ELSE IF b <= 223 THEN b - 192
    ELSE IF b <= 239 THEN b - 224
    ELSE b - 240

\* mbrtowc(&pwc, p, n, &mst): s holds the n bytes at p, pwc the value *pwc
\* has before the call.  The result is [wlen, pwc, mst]; wlen is -1 for
\* (size_t)-1 and -2 for (size_t)-2.
\*   "C" locale: one byte is one character; a byte above 0x7f is an invalid
\*   sequence, *pwc is not stored.  (A libc that maps such a byte to a code
\*   unit returns 1 and stores a value that is not white space: the scan
\*   loops act on both alike.)
\*   UTF-8: the pending prefix in mst is completed from s.  An incomplete
\*   sequence takes all n bytes into mst and returns -2; an invalid one
\*   returns -1 and leaves the state initial.
mbrtowc(pwc, s, mstate) ==
    IF Locale = "C"
    THEN IF s[1] = 0 THEN [wlen |-> 0, pwc |-> 0, mst |-> mstate]
         ELSE IF s[1] < 128 THEN [wlen |-> 1, pwc |-> s[1], mst |-> mstate]
         ELSE [wlen |-> -1, pwc |-> pwc, mst |-> mstate]
    ELSE LET all == mstate \o s
             need == Utf8Len(all[1])
             have == IF Len(all) < need THEN Len(all) ELSE need
             okc == \A k \in 2..have : IsCont(all[k])
         IN  IF need = 0 \/ ~okc
             THEN [wlen |-> -1, pwc |-> pwc, mst |-> <<>>]
             ELSE IF Len(all) < need
             THEN [wlen |-> -2, pwc |-> pwc, mst |-> all]
             ELSE LET v == Utf8Value(SubSeq(all, 2, need), 1, Utf8Lead(all[1]))
                  IN  [wlen |-> IF v = 0 THEN 0 ELSE need - Len(mstate),
                       pwc |-> v, mst |-> <<>>]

\* a <= b for two uintmax_t values.
ULE(a, b) == IF (a < 0) = (b < 0) THEN a <= b ELSE b < 0

----------------------------------------------------------------------------
(* The bodies of the read loops: what one pass does with the n bytes read. *)

\* count_all's inner loop with the decoder branch not counting lines: the
\* only newline test left is the one of the fast path.
RECURSIVE count_all_block_wart(_, _, _, _)
count_all_block_wart(buf, p, left, s) ==
    IF left <= 0 THEN s
    ELSE LET c == SChar(buf[p]) IN
         IF is_ascii(c) /\ is_print(c)
         THEN count_all_block_wart(buf, p + 1, left - 1,
                  IF is_space(c) THEN [s EXCEPT !.have_space = TRUE]
                  ELSE IF s.have_space
                       THEN [s EXCEPT !.have_space = FALSE,
                                      !.num_words = @ + 1]
                  ELSE IF c = 10 THEN [s EXCEPT !.num_lines = @ + 1]
                  ELSE s)
         ELSE LET r == mbrtowc(buf[p], SubSeq(buf, p, p + left - 1), s.mst)
                  wlen == IF r.wlen \in {0, -1, -2} THEN 1 ELSE r.wlen
                  s1 == [s EXCEPT !.mst = r.mst]
              IN  count_all_block_wart(buf, p + wlen, left - wlen,
                      IF iswspace(r.pwc) THEN [s1 EXCEPT !.have_space = TRUE]
                      ELSE IF s1.have_space
                           THEN [s1 EXCEPT !.have_space = FALSE,
                                           !.num_words = @ + 1]
                      ELSE s1)

\* count_all, lines 115-150: the inner loop over a block.  p is the index of
\* the cursor, left the bytes not yet consumed (bytes_read), s the loop's
\* state [have_space, mst, num_lines, num_words].
RECURSIVE count_all_block(_, _, _, _)
count_all_block(buf, p, left, s) ==
    IF left <= 0 THEN s
    ELSE LET c == SChar(buf[p]) IN
         IF is_ascii(c) /\ is_print(c)
         THEN count_all_block(buf, p + 1, left - 1,
                  IF is_space(c) THEN [s EXCEPT !.have_space = TRUE]
                  ELSE IF s.have_space
                       THEN [s EXCEPT !.have_space = FALSE,
                                      !.num_words = @ + 1]
                  ELSE IF c = 10 THEN [s EXCEPT !.num_lines = @ + 1]
                  ELSE s)
         ELSE LET r == mbrtowc(buf[p], SubSeq(buf, p, p + left - 1), s.mst)
                  wlen == IF r.wlen \in {0, -1, -2} THEN 1 ELSE r.wlen
                  s1 == [s EXCEPT !.mst = r.mst,
                                  !.num_lines = IF r.pwc = 10 THEN @ + 1 ELSE @]
              IN  count_all_block(buf, p + wlen, left - wlen,
                      IF iswspace(r.pwc) THEN [s1 EXCEPT !.have_space = TRUE]
                      ELSE IF s1.have_space
                           THEN [s1 EXCEPT !.have_space = FALSE,
                                           !.num_words = @ + 1]
                      ELSE s1)

\* count_words' inner loop with the decoder branch taking no character for
\* white space.
RECURSIVE count_words_block_ctl(_, _, _, _)
count_words_block_ctl(buf, p, left, s) ==
    IF left <= 0 THEN s
    ELSE LET c == SChar(buf[p]) IN
         IF is_ascii(c) /\ is_print(c)
         THEN count_words_block_ctl(buf, p + 1, left - 1,
                  IF is_space(c) THEN [s EXCEPT !.have_space = TRUE]
                  ELSE IF s.have_space
                       THEN [s EXCEPT !.have_space = FALSE,
                                      !.num_words = @ + 1]
                  ELSE s)
         ELSE LET r == mbrtowc(buf[p], SubSeq(buf, p, p + left - 1), s.mst)
                  wlen == IF r.wlen \in {0, -1, -2} THEN 1 ELSE r.wlen
                  s1 == [s EXCEPT !.mst = r.mst]
              IN  count_words_block_ctl(buf, p + wlen, left - wlen,
                      IF s1.have_space
                      THEN [s1 EXCEPT !.have_space = FALSE,
                                      !.num_words = @ + 1]
                      ELSE s1)

\* count_words, lines 259-293: the inner loop over a block; s is
\* [have_space, mst, num_words].
RECURSIVE count_words_block(_, _, _, _)
count_words_block(buf, p, left, s) ==
    IF left <= 0 THEN s
    ELSE LET c == SChar(buf[p]) IN
         IF is_ascii(c) /\ is_print(c)
         THEN count_words_block(buf, p + 1, left - 1,
                  IF is_space(c) THEN [s EXCEPT !.have_space = TRUE]
                  ELSE IF s.have_space
                       THEN [s EXCEPT !.have_space = FALSE,
                                      !.num_words = @ + 1]
                  ELSE s)
         ELSE LET r == mbrtowc(buf[p], SubSeq(buf, p, p + left - 1), s.mst)
                  wlen == IF r.wlen \in {0, -1, -2} THEN 1 ELSE r.wlen
                  s1 == [s EXCEPT !.mst = r.mst]
              IN  count_words_block(buf, p + wlen, left - wlen,
                      IF iswspace(r.pwc) THEN [s1 EXCEPT !.have_space = TRUE]
                      ELSE IF s1.have_space
                           THEN [s1 EXCEPT !.have_space = FALSE,
                                           !.num_words = @ + 1]
                      ELSE s1)

\* The bytewise loop taking 0x0D for a line end as well.
RECURSIVE bytewise_lines_cr(_, _, _, _)
bytewise_lines_cr(buf, p, left, lines) ==
    IF left = 0 THEN lines
    ELSE bytewise_lines_cr(buf, p + 1, left - 1,
                           IF buf[p] \in {10, 13} THEN lines + 1 ELSE lines)

\* count_lines_and_bytes, lines 229-231: while (bytes_read--) if (*p++ == '\n').
RECURSIVE bytewise_lines(_, _, _, _)
bytewise_lines(buf, p, left, lines) ==
    IF left = 0 THEN lines
    ELSE bytewise_lines(buf, p + 1, left - 1,
                        IF buf[p] = 10 THEN lines + 1 ELSE lines)

\* memchr(p, '\n', (size_t)-1): the index of the first 0x0A at or after p.
\* The sentinel guarantees there is one.
RECURSIVE memchr(_, _)
memchr(buf, p) == IF buf[p] = 10 THEN p ELSE memchr(buf, p + 1)

\* count_lines_and_bytes, lines 219-223: the sentinel is stored at `last`
\* and the loop counts every 0x0A that memchr finds before it.
RECURSIVE memchr_loop(_, _, _, _)
memchr_loop(buf, p, last, lines) ==
    LET q == memchr(buf, p) IN
    IF q < last THEN memchr_loop(buf, q + 1, last, lines + 1) ELSE lines

memchr_lines(block, lines) ==
    memchr_loop(Append(block, 10), 1, Len(block) + 1, lines)

----------------------------------------------------------------------------
(* The scan strategies as functions of their state.  s is the record       *)
(* [li, have_space, mst, sum_bytes, expect_long] of the struct lc_info     *)
(* and the locals of the function; n is what read() returned (-1 or        *)
(* 1..MAXSIZE) and data the bytes it stored.                               *)

Locals(info, hs, ms, sum, el) ==
    [li |-> info, have_space |-> hs, mst |-> ms, sum_bytes |-> sum,
     expect_long |-> el]

\* S_ISREG(st.st_mode) && st.st_size > 0
HasSize(stat) == stat.reg /\ stat.size > 0

\* count_all, lines 94-102.
count_all_enter(info, stat) ==
    Locals([info EXCEPT !.num_bytes = IF HasSize(stat) THEN stat.size ELSE 0,
                        !.num_lines = 0, !.num_words = 0],
           TRUE, <<>>, 0, FALSE)

\* count_all's pass with have_space and mst set anew for every block.
count_all_pass_fresh(s, n, data) ==
    LET r == count_all_block(data, 1, n,
                 [have_space |-> TRUE, mst |-> <<>>,
                  num_lines |-> s.li.num_lines, num_words |-> s.li.num_words])
    IN  [s EXCEPT !.sum_bytes = @ + n,
                  !.have_space = r.have_space,
                  !.mst = r.mst,
                  !.li = [@ EXCEPT !.num_lines = r.num_lines,
                                   !.num_words = r.num_words]]

\* count_all, lines 111-151: one pass of the read loop.
count_all_pass(s, n, data) ==
    LET r == count_all_block(data, 1, n,
                 [have_space |-> s.have_space, mst |-> s.mst,
                  num_lines |-> s.li.num_lines, num_words |-> s.li.num_words])
    IN  [s EXCEPT !.sum_bytes = @ + n,
                  !.have_space = r.have_space,
                  !.mst = r.mst,
                  !.li = [@ EXCEPT !.num_lines = r.num_lines,
                                   !.num_words = r.num_words]]

\* count_all, lines 155-156.
count_all_leave(s) ==
    IF s.li.num_bytes = 0
    THEN [s EXCEPT !.li = [@ EXCEPT !.num_bytes = s.sum_bytes]]
    ELSE s

\* count_bytes, lines 169-174.
count_bytes_enter(info, stat) ==
    Locals([info EXCEPT !.num_bytes = IF HasSize(stat) THEN stat.size ELSE 0],
           TRUE, <<>>, 0, FALSE)

\* count_bytes, lines 180-181.
count_bytes_pass(s, n, data) ==
    [s EXCEPT !.li = [@ EXCEPT !.num_bytes = @ + n]]

\* count_lines_and_bytes, lines 202-210.
count_lines_and_bytes_enter(info, stat) ==
    Locals([info EXCEPT !.num_bytes = IF HasSize(stat) THEN stat.size ELSE 0,
                        !.num_lines = 0],
           TRUE, <<>>, 0, FALSE)

\* count_lines_and_bytes, lines 212-233: one pass of the read loop that runs
\* to its end.  With n = -1 the sentinel lands at offset -1 and memchr finds
\* nothing before it.
count_lines_and_bytes_pass(s, n, data) ==
    IF s.expect_long
    THEN [s EXCEPT !.sum_bytes = @ + n,
                   !.li = [@ EXCEPT !.num_lines =
                              IF n < 0 THEN @ ELSE memchr_lines(data, @)]]
    ELSE [s EXCEPT !.sum_bytes = @ + n,
                   !.expect_long = ULE(n * 6, s.li.num_lines),
                   !.li = [@ EXCEPT !.num_lines =
                              bytewise_lines(data, 1, Len(data), @)]]

\* count_lines_and_bytes, lines 235-236.
count_lines_and_bytes_leave(s) ==
    IF s.li.num_bytes = 0
    THEN [s EXCEPT !.li = [@ EXCEPT !.num_bytes = s.sum_bytes]]
    ELSE s

\* The buffer offsets one pass of count_lines_and_bytes touches: read()
\* stores offsets 0..n-1; the bytewise loop loads them; the long path stores
\* the sentinel at offset n and memchr loads up to it.  With n = -1 the
\* bytewise loop's `while (bytes_read--)` never reaches 0 and runs off the
\* end of the buffer.
count_lines_and_bytes_touch(el, n) ==
    IF el THEN [lo |-> IF n < 0 THEN n ELSE 0, hi |-> IF n < 0 THEN 0 ELSE n]
    ELSE [lo |-> 0, hi |-> IF n < 0 THEN MAXSIZE ELSE n - 1]

\* What a pass of count_lines_and_bytes that leaves the buffer can do: a
\* store or load outside the malloc()ed block is undefined.  The runaway
\* bytewise loop walks the whole address space and always faults; the
\* stray sentinel store (offset -1 or MAXSIZE) may damage the heap and kill
\* the process or go unnoticed.
count_lines_and_bytes_outcomes(el, n) ==
    LET t == count_lines_and_bytes_touch(el, n) IN
    IF t.lo >= 0 /\ t.hi <= MAXSIZE - 1 THEN {"continue"}
    ELSE IF ~el THEN {"fault"}
    ELSE {"continue", "fault"}

\* count_words entered without `li->num_words = 0`.
count_words_enter_keep(info, stat) ==
    Locals(info, TRUE, <<>>, 0, FALSE)

\* count_words, lines 245-256.
count_words_enter(info, stat) ==
    Locals([info EXCEPT !.num_words = 0], TRUE, <<>>, 0, FALSE)

\* count_words, lines 257-294: one pass of the read loop.
count_words_pass(s, n, data) ==
    LET r == count_words_block(data, 1, n,
                 [have_space |-> s.have_space, mst |-> s.mst,
                  num_words |-> s.li.num_words])
    IN  [s EXCEPT !.have_space = r.have_space,
                  !.mst = r.mst,
                  !.li = [@ EXCEPT !.num_words = r.num_words]]

----------------------------------------------------------------------------
(* use_opts: the promotion of the empty flag set, the choice of the        *)
(* strategy, and what is printed and added to the totals.                  *)

\* use_opts, lines 305-306.
Promote(conf) ==
    IF ~conf.opt_lines /\ ~conf.opt_words /\ ~conf.opt_bytes
    THEN [opt_bytes |-> TRUE, opt_lines |-> TRUE, opt_words |-> TRUE]
    ELSE conf

\* The dispatch with the test of the -lw branch wrong: -lw runs
\* count_lines_and_bytes.
StrategyOf_lw(conf) ==
    IF conf.opt_lines /\ conf.opt_words /\ conf.opt_bytes THEN "count_all"
    ELSE IF conf.opt_bytes /\ ~conf.opt_lines /\ ~conf.opt_words
         THEN "count_bytes"
    ELSE IF conf.opt_lines /\ ~conf.opt_bytes
         THEN "count_lines_and_bytes"
    ELSE IF conf.opt_lines /\ conf.opt_bytes /\ ~conf.opt_words
         THEN "count_lines_and_bytes"
    ELSE IF conf.opt_words /\ ~conf.opt_lines /\ ~conf.opt_bytes
         THEN "count_words"
    ELSE IF conf.opt_bytes /\ conf.opt_words /\ ~conf.opt_lines
         THEN "count_all"
    ELSE "none"

\* use_opts, lines 309-371: the function called for a flag set.
StrategyOf(conf) ==
    IF conf.opt_lines /\ conf.opt_words /\ conf.opt_bytes THEN "count_all"
    ELSE IF conf.opt_bytes /\ ~conf.opt_lines /\ ~conf.opt_words
         THEN "count_bytes"
    ELSE IF conf.opt_lines /\ ~conf.opt_bytes /\ ~conf.opt_words
         THEN "count_lines_and_bytes"
    ELSE IF conf.opt_lines /\ conf.opt_bytes /\ ~conf.opt_words
         THEN "count_lines_and_bytes"
    ELSE IF conf.opt_words /\ ~conf.opt_lines /\ ~conf.opt_bytes
         THEN "count_words"
    ELSE IF conf.opt_lines /\ conf.opt_words /\ ~conf.opt_bytes
         THEN "count_all"
    ELSE IF conf.opt_bytes /\ conf.opt_words /\ ~conf.opt_lines
         THEN "count_all"
    ELSE "none"

\* use_opts, lines 309-371: what is printed for the source after its scan
\* (a function from the counters printed to their values) and the struct
\* with the totals brought up to date.
use_opts_after(conf, info) ==
    IF conf.opt_lines /\ conf.opt_words /\ conf.opt_bytes
    THEN [cols |-> ("lines" :> info.num_lines) @@ ("words" :> info.num_words)
                   @@ ("bytes" :> info.num_bytes),
          li |-> [info EXCEPT !.lines_total = @ + info.num_lines,
                              !.words_total = @ + info.num_words,
                              !.bytes_total = @ + info.num_bytes]]
    ELSE IF conf.opt_bytes /\ ~conf.opt_lines /\ ~conf.opt_words
    THEN [cols |-> ("bytes" :> info.num_bytes),
          li |-> [info EXCEPT !.bytes_total = @ + info.num_bytes]]
    ELSE IF conf.opt_lines /\ ~conf.opt_bytes /\ ~conf.opt_words
    THEN [cols |-> ("lines" :> info.num_lines),
          li |-> [info EXCEPT !.lines_total = @ + info.num_lines]]
    ELSE IF conf.opt_lines /\ conf.opt_bytes /\ ~conf.opt_words
    THEN [cols |-> ("lines" :> info.num_lines) @@ ("bytes" :> info.num_bytes),
          li |-> [info EXCEPT !.lines_total = @ + info.num_lines,
                              !.bytes_total = @ + info.num_bytes]]
    ELSE IF conf.opt_words /\ ~conf.opt_lines /\ ~conf.opt_bytes
    THEN [cols |-> ("words" :> info.num_words),
          li |-> [info EXCEPT !.words_total = @ + info.num_words]]
    ELSE IF conf.opt_lines /\ conf.opt_words /\ ~conf.opt_bytes
    THEN [cols |-> ("lines" :> info.num_lines) @@ ("words" :> info.num_words),
          li |-> [info EXCEPT !.lines_total = @ + info.num_lines,
                              !.words_total = @ + info.num_words]]
    ELSE IF conf.opt_bytes /\ conf.opt_words /\ ~conf.opt_lines
    THEN [cols |-> ("words" :> info.num_words) @@ ("bytes" :> info.num_bytes),
          li |-> [info EXCEPT !.words_total = @ + info.num_words,
                              !.bytes_total = @ + info.num_bytes]]
    ELSE [cols |-> <<>>, li |-> info]

\* The total line with the -lb branch printing words_total for bytes_total.
main_total_lb(conf, info) ==
    IF conf.opt_lines /\ conf.opt_words /\ ~conf.opt_bytes
    THEN ("lines" :> info.lines_total) @@ ("words" :> info.words_total)
    ELSE IF conf.opt_lines /\ ~conf.opt_words /\ ~conf.opt_bytes
    THEN ("lines" :> info.lines_total)
    ELSE IF ~conf.opt_lines /\ conf.opt_words /\ conf.opt_bytes
    THEN ("words" :> info.words_total) @@ ("bytes" :> info.bytes_total)
    ELSE IF ~conf.opt_lines /\ ~conf.opt_words /\ conf.opt_bytes
    THEN ("bytes" :> info.bytes_total)
    ELSE IF conf.opt_lines /\ ~conf.opt_words /\ conf.opt_bytes
    THEN ("lines" :> info.lines_total) @@ ("bytes" :> info.words_total)
    ELSE IF ~conf.opt_lines /\ conf.opt_words /\ ~conf.opt_bytes
    THEN ("words" :> info.words_total)
    ELSE ("lines" :> info.lines_total) @@ ("words" :> info.words_total)
         @@ ("bytes" :> info.bytes_total)

\* main, lines 445-477: the columns of the total line.
main_total(conf, info) ==
    IF conf.opt_lines /\ conf.opt_words /\ ~conf.opt_bytes
    THEN ("lines" :> info.lines_total) @@ ("words" :> info.words_total)
    ELSE IF conf.opt_lines /\ ~conf.opt_words /\ ~conf.opt_bytes
    THEN ("lines" :> info.lines_total)
    ELSE IF ~conf.opt_lines /\ conf.opt_words /\ conf.opt_bytes
    THEN ("words" :> info.words_total) @@ ("bytes" :> info.bytes_total)
    ELSE IF ~conf.opt_lines /\ ~conf.opt_words /\ conf.opt_bytes
    THEN ("bytes" :> info.bytes_total)
    ELSE IF conf.opt_lines /\ ~conf.opt_words /\ conf.opt_bytes
    THEN ("lines" :> info.lines_total) @@ ("bytes" :> info.bytes_total)
    ELSE IF ~conf.opt_lines /\ conf.opt_words /\ ~conf.opt_bytes
    THEN ("words" :> info.words_total)
    ELSE ("lines" :> info.lines_total) @@ ("words" :> info.words_total)
         @@ ("bytes" :> info.bytes_total)

----------------------------------------------------------------------------
(* The environment: what open(), fstat(), malloc() and read() answer.      *)

\* What fstat() can report: not a regular file, or a regular file and its
\* st_size.
Stats == {[reg |-> FALSE, size |-> 0]}
         \cup {[reg |-> TRUE, size |-> n] : n \in 0..MaxSize}

\* What fstat() reports for the source: a directory is not a regular file.
FStat == IF eisdir THEN {[reg |-> FALSE, size |-> 0]} ELSE Stats

Min(a, b) == IF a < b THEN a ELSE b

\* The non-zero results of read(fd, buf, MAXSIZE): n bytes stored, or -1.
\* On a directory every read() fails (EISDIR).
ReadResults ==
    IF eisdir
    THEN IF nfail < MaxDirFails THEN {[n |-> -1, data |-> <<>>]} ELSE {}
    ELSE (IF lazy
          THEN IF budget > 0
               THEN {[n |-> Len(d), data |-> d] : d \in LazyBlocks}
               ELSE {}
          ELSE {[n |-> k, data |-> SubSeq(whole, pos + 1, pos + k)] :
                   k \in 1..Min(MAXSIZE, Len(whole) - pos)})
         \cup (IF fails > 0 THEN {[n |-> -1, data |-> <<>>]} ELSE {})

\* read() may return 0: a generating source can end at any time, a source
\* of fixed content ends when all of it was delivered; read() on a
\* directory never returns 0.
AtEof == ~eisdir /\ (lazy \/ pos = Len(whole))

\* The struct lc_info main starts with (line 387).
ZeroInfo == [num_bytes |-> 0, num_lines |-> 0, num_words |-> 0,
             lines_total |-> 0, words_total |-> 0, bytes_total |-> 0]

\* The strategy f up to its read loop, one pass of its read loop, and what
\* it does between the loop and its return.
ScanEnter(f, info, stat) ==
    IF f = "count_all" THEN count_all_enter(info, stat)
    ELSE IF f = "count_bytes" THEN count_bytes_enter(info, stat)
    ELSE IF f = "count_lines_and_bytes"
         THEN count_lines_and_bytes_enter(info, stat)
    ELSE count_words_enter(info, stat)

ScanPass(f, s, n, data) ==
    IF f = "count_all" THEN count_all_pass(s, n, data)
    ELSE IF f = "count_bytes" THEN count_bytes_pass(s, n, data)
    ELSE IF f = "count_lines_and_bytes"
         THEN count_lines_and_bytes_pass(s, n, data)
    ELSE count_words_pass(s, n, data)

ScanLeave(f, s) ==
    IF f = "count_all" THEN count_all_leave(s)
    ELSE IF f = "count_lines_and_bytes" THEN count_lines_and_bytes_leave(s)
    ELSE s

\* One pass of count_lines_and_bytes that takes the bytewise path whatever
\* expect_long says; b is [num_lines, sum_bytes].
bytewise_pass(b, n, data) ==
    [num_lines |-> bytewise_lines(data, 1, Len(data), b.num_lines),
     sum_bytes |-> b.sum_bytes + n]

\* White space of the "C" locale, for the history variables.
Ws(b) == b \in {9, 10, 11, 12, 13, 32}

\* The strategies that report lines, and those that report words.
LineStrategies == {"count_all", "count_lines_and_bytes"}
WordStrategies == {"count_all", "count_words"}

\* The environment and the history variables after a read.  The history of
\* the 0x0A bytes is kept under the strategies that count lines, that of the
\* runs of non-whitespace under those that count words.
Delivered(r) ==
    /\ budget' = IF lazy /\ r.n > 0 THEN budget - 1 ELSE budget
    /\ fails' = IF r.n < 0 /\ ~eisdir THEN fails - 1 ELSE fails
    /\ pos' = pos + Len(r.data)
    /\ nreads' = IF r.n > 0 THEN nreads + 1 ELSE nreads
    /\ gnl' = IF strategy \in LineStrategies
              THEN gnl + Cardinality({i \in 1..Len(r.data) : r.data[i] = 10})
              ELSE gnl
    /\ gruns' = IF strategy \in WordStrategies
                THEN gruns + Cardinality({i \in 1..Len(r.data) :
                         /\ ~Ws(r.data[i])
                         /\ IF i = 1 THEN gws ELSE Ws(r.data[i - 1])})
                ELSE gruns
    /\ gws' = IF strategy \in WordStrategies /\ r.data # <<>>
              THEN Ws(r.data[Len(r.data)])
              ELSE gws
    /\ gsum' = gsum + Len(r.data)
    /\ nfail' = IF r.n < 0 THEN nfail + 1 ELSE nfail
    /\ bw' = IF strategy = "count_lines_and_bytes"
             THEN bytewise_pass(bw, r.n, r.data)
             ELSE bw
    /\ fresh' = ScanPass(strategy, fresh, r.n, r.data)

driver == <<lc, nargs, argc, is_total, out, opened, scanned, lazy, whole,
            flags, eisdir>>
history == <<budget, fails, pos, nreads, gnl, gruns, gws, gsum, nfail, bw,
             fresh>>
locals == <<have_space, mst, sum_bytes, expect_long, acc>>

----------------------------------------------------------------------------
(* The actions. *)

\* exit(status) after a diagnostic on stderr.
Exit(code, msg) ==
    /\ pc' = "exit"
    /\ status' = code
    /\ errmsg' = msg

\* use_opts up to the read loop of the strategy it calls: the promotion,
\* the dispatch, and the strategy's fstat(), malloc() and initialisations.
\* fault says which of the two calls fails, if any.
use_opts_enter(stat, fault) ==
    LET conf == Promote(lc)
        f == StrategyOf(conf)
        s == IF f = "count_all" THEN count_all_enter(li, stat)
             ELSE IF f = "count_bytes" THEN count_bytes_enter(li, stat)
             ELSE IF f = "count_lines_and_bytes"
                  THEN count_lines_and_bytes_enter(li, stat)
             ELSE count_words_enter(li, stat)
        \* count_words does not call fstat(); count_bytes calls malloc()
        \* only if it has to read.
        failed == IF fault = "fstat()" THEN f # "count_words"
                  ELSE IF fault = "malloc()"
                       THEN ~(f = "count_bytes" /\ HasSize(stat))
                  ELSE FALSE
    IN  /\ lc' = conf
        /\ strategy' = f
        /\ st' = stat
        /\ scanned' = scanned + 1
        /\ li' = s.li
        /\ have_space' = s.have_space
        /\ mst' = s.mst
        /\ sum_bytes' = s.sum_bytes
        /\ expect_long' = s.expect_long
        /\ acc' = [lo |-> 0, hi |-> -1]
        /\ pos' = 0
        /\ nreads' = 0
        /\ gnl' = 0
        /\ gruns' = 0
        /\ gws' = TRUE
        /\ gsum' = 0
        /\ nfail' = 0
        /\ bw' = [num_lines |-> 0, sum_bytes |-> 0]
        /\ fresh' = ScanEnter(f, ZeroInfo, stat)
        /\ IF failed
           THEN Exit("failure", fault) /\ fd' = "open"
           ELSE IF f = "count_bytes" /\ HasSize(stat)
           THEN \* lines 173-174 and 186: no read, close(fd), return
                pc' = "ret" /\ fd' = "closed" /\ UNCHANGED <<status, errmsg>>
           ELSE pc' = "read" /\ fd' = "open" /\ UNCHANGED <<status, errmsg>>

\* open(arg) failed and main only warns: the loop goes on to the next
\* argument.
open_failed_warn ==
    /\ pc' = "loop"
    /\ errmsg' = "arg: No such file or directory"
    /\ UNCHANGED status

\* main, lines 432-433: open(arg) failed; err() prints the name and the
\* error and exits.
open_failed == Exit("failure", "arg: No such file or directory")

\* main, lines 415-419: no file argument, standard input is the source.
main_stdin ==
    /\ pc = "stdin"
    /\ opened' = opened + 1
    /\ \E ok \in BOOLEAN :
         IF ok
         THEN \E stat \in FStat, fault \in {"none", "fstat()", "malloc()"} :
                 use_opts_enter(stat, fault)
         ELSE /\ Exit("failure", "open()")
              /\ UNCHANGED <<lc, li, strategy, st, fd, scanned, locals,
                             pos, nreads, gnl, gruns, gws, gsum,
                             nfail, bw, fresh>>
    /\ UNCHANGED <<nargs, argc, is_total, out, ebadf, budget, fails, lazy,
                   whole, flags, eisdir>>

\* main, lines 424-435: the loop takes the next argument.  arg is what the
\* argument is: the string "-", a name open() fails on, or a name it opens.
main_open ==
    /\ pc = "loop"
    /\ argc > 0
    /\ argc' = argc - 1
    /\ \E arg \in {"dash", "noent", "file"} :
         IF arg = "dash"
         THEN /\ Exit("failure", "lc: invalid option prefix.")
              /\ UNCHANGED <<lc, li, strategy, st, fd, opened, scanned,
                             locals, pos, nreads, gnl, gruns, gws, gsum,
                             nfail, bw, fresh>>
         ELSE IF arg = "noent"
         THEN /\ open_failed
              /\ opened' = opened + 1
              /\ UNCHANGED <<lc, li, strategy, st, fd, scanned, locals,
                             pos, nreads, gnl, gruns, gws, gsum,
                             nfail, bw, fresh>>
         ELSE /\ opened' = opened + 1
              /\ \E stat \in FStat, fault \in {"none", "fstat()", "malloc()"} :
                    use_opts_enter(stat, fault)
    /\ UNCHANGED <<nargs, is_total, out, ebadf, budget, fails, lazy, whole,
                   flags, eisdir>>

\* count_all, lines 111-151: read() returned n # 0 and the loop body ran.
count_all_read ==
    /\ pc = "read"
    /\ strategy = "count_all"
    /\ \E r \in ReadResults :
         LET s == count_all_pass(
                      Locals(li, have_space, mst, sum_bytes, expect_long),
                      r.n, r.data)
         IN  /\ li' = s.li
             /\ have_space' = s.have_space
             /\ mst' = s.mst
             /\ sum_bytes' = s.sum_bytes
             /\ Delivered(r)
    /\ UNCHANGED <<driver, pc, strategy, st, expect_long, acc, fd, ebadf, errmsg,
                   status>>

\* count_all, lines 111 and 153-159: read() returned 0.
count_all_eof ==
    /\ pc = "read"
    /\ strategy = "count_all"
    /\ AtEof
    /\ li' = count_all_leave(
                 Locals(li, have_space, mst, sum_bytes, expect_long)).li
    /\ pc' = "ret"
    /\ UNCHANGED <<driver, history, locals, strategy, st, fd, ebadf, errmsg,
                   status>>

\* count_bytes, lines 180-181: read() returned n # 0.
count_bytes_read ==
    /\ pc = "read"
    /\ strategy = "count_bytes"
    /\ \E r \in ReadResults :
         /\ li' = count_bytes_pass(
                      Locals(li, have_space, mst, sum_bytes, expect_long),
                      r.n, r.data).li
         /\ Delivered(r)
    /\ UNCHANGED <<driver, pc, strategy, st, have_space, mst, sum_bytes,
                   expect_long, acc, fd, ebadf, errmsg, status>>

\* count_bytes, lines 180 and 183-186: read() returned 0; close(fd).
count_bytes_eof ==
    /\ pc = "read"
    /\ strategy = "count_bytes"
    /\ AtEof
    /\ pc' = "ret"
    /\ fd' = "closed"
    /\ ebadf' = IF fd = "closed" THEN ebadf + 1 ELSE ebadf
    /\ UNCHANGED <<driver, history, locals, li, strategy, st, errmsg, status>>

\* count_lines_and_bytes, lines 212-233: read() returned n # 0 and the loop
\* body ran, or faulted on the way.
count_lines_and_bytes_read ==
    /\ pc = "read"
    /\ strategy = "count_lines_and_bytes"
    /\ \E r \in ReadResults :
         /\ acc' = count_lines_and_bytes_touch(expect_long, r.n)
         /\ Delivered(r)
         /\ \E o \in count_lines_and_bytes_outcomes(expect_long, r.n) :
              IF o = "fault"
              THEN /\ pc' = "exit"
                   /\ status' = "signal"
                   /\ UNCHANGED <<li, sum_bytes, expect_long>>
              ELSE LET s == count_lines_and_bytes_pass(
                                Locals(li, have_space, mst, sum_bytes,
                                       expect_long), r.n, r.data)
                   IN  /\ li' = s.li
                       /\ sum_bytes' = s.sum_bytes
                       /\ expect_long' = s.expect_long
                       /\ UNCHANGED <<pc, status>>
    /\ UNCHANGED <<driver, strategy, st, have_space, mst, fd, ebadf, errmsg>>

\* count_lines_and_bytes, lines 212 and 235-239: read() returned 0;
\* close(fd).
count_lines_and_bytes_eof ==
    /\ pc = "read"
    /\ strategy = "count_lines_and_bytes"
    /\ AtEof
    /\ li' = count_lines_and_bytes_leave(
                 Locals(li, have_space, mst, sum_bytes, expect_long)).li
    /\ pc' = "ret"
    /\ fd' = "closed"
    /\ ebadf' = IF fd = "closed" THEN ebadf + 1 ELSE ebadf
    /\ UNCHANGED <<driver, history, locals, strategy, st, errmsg, status>>

\* count_words, lines 257-294: read() returned n # 0 and the loop body ran.
count_words_read ==
    /\ pc = "read"
    /\ strategy = "count_words"
    /\ \E r \in ReadResults :
         LET s == count_words_pass(
                      Locals(li, have_space, mst, sum_bytes, expect_long),
                      r.n, r.data)
         IN  /\ li' = s.li
             /\ have_space' = s.have_space
             /\ mst' = s.mst
             /\ Delivered(r)
    /\ UNCHANGED <<driver, pc, strategy, st, sum_bytes, expect_long, acc, fd,
                   ebadf, errmsg, status>>

\* count_words, lines 257 and 296-297: read() returned 0; close(fd).
count_words_eof ==
    /\ pc = "read"
    /\ strategy = "count_words"
    /\ AtEof
    /\ pc' = "ret"
    /\ fd' = "closed"
    /\ ebadf' = IF fd = "closed" THEN ebadf + 1 ELSE ebadf
    /\ UNCHANGED <<driver, history, locals, li, strategy, st, errmsg, status>>

\* use_opts after the strategy returned (lines 311-371: the counts are
\* printed and added to the totals), then main: the file name or the
\* newline ends the line, close(fd) (lines 420-421, 438-439).
use_opts_return ==
    /\ pc = "ret"
    /\ LET r == use_opts_after(lc, li)
       IN  /\ li' = r.li
           /\ out' = Append(out, [kind |-> IF nargs = 0 THEN "stdin"
                                           ELSE "file",
                                  cols |-> r.cols])
    /\ fd' = "closed"
    /\ ebadf' = IF fd = "closed" THEN ebadf + 1 ELSE ebadf
    /\ pc' = "loop"
    /\ UNCHANGED <<lc, nargs, argc, is_total, opened, scanned, lazy, whole,
                   flags, eisdir, history, locals, strategy, st, errmsg,
                   status>>

\* main, lines 424 and 443-478: no argument is left; the total line if
\* there were several, and main returns 0.
main_exit ==
    /\ pc = "loop"
    /\ argc = 0
    /\ out' = IF is_total
              THEN Append(out, [kind |-> "total", cols |-> main_total(lc, li)])
              ELSE out
    /\ pc' = "exit"
    /\ status' = "ok"
    /\ UNCHANGED <<lc, li, nargs, argc, is_total, opened, scanned, lazy,
                   whole, flags, eisdir, history, locals, strategy, st, fd,
                   ebadf, errmsg>>

Next ==
    \/ main_stdin
    \/ main_open
    \/ count_all_read
    \/ count_all_eof
    \/ count_bytes_read
    \/ count_bytes_eof
    \/ count_lines_and_bytes_read
    \/ count_lines_and_bytes_eof
    \/ count_words_read
    \/ count_words_eof
    \/ use_opts_return
    \/ main_exit

\* The state main is in after getopt() and `argc -= optind`, at line 415.
Start ==
    /\ lc \in [opt_bytes : BOOLEAN, opt_lines : BOOLEAN, opt_words : BOOLEAN]
    /\ li = [num_bytes |-> 0, num_lines |-> 0, num_words |-> 0,
             lines_total |-> 0, words_total |-> 0, bytes_total |-> 0]
    /\ nargs \in 0..MaxFiles
    /\ argc = nargs
    /\ is_total = (nargs > 1)
    /\ pc = IF nargs = 0 THEN "stdin" ELSE "loop"
    /\ strategy = "none"
    /\ st = [reg |-> FALSE, size |-> 0]
    /\ have_space = TRUE
    /\ mst = <<>>
    /\ sum_bytes = 0
    /\ expect_long = FALSE
    /\ acc = [lo |-> 0, hi |-> -1]
    /\ fd = "none"
    /\ ebadf = 0
    /\ out = <<>>
    /\ errmsg = ""
    /\ status = "running"
    /\ opened = 0
    /\ scanned = 0
    /\ pos = 0
    /\ flags = lc
    /\ nreads = 0
    /\ gnl = 0
    /\ gruns = 0
    /\ gws = TRUE
    /\ gsum = 0
    /\ nfail = 0
    /\ bw = [num_lines |-> 0, sum_bytes |-> 0]
    /\ fresh = Locals(ZeroInfo, TRUE, <<>>, 0, FALSE)

\* The sources generate their data read by read.
Init ==
    /\ Start
    /\ lazy = TRUE
    /\ whole = <<>>
    /\ budget = IF nargs = 0 THEN MaxReads ELSE MaxDriverReads
    /\ fails = MaxFails
    /\ eisdir = FALSE

\* One source of a content fixed in advance, whose reads all succeed.
InitTape ==
    /\ Start
    /\ nargs <= 1
    /\ lazy = FALSE
    /\ whole \in Streams
    /\ budget = 0
    /\ fails = 0
    /\ eisdir = FALSE

\* At most one source, of generated data or a directory.
InitLive ==
    /\ Start
    /\ nargs <= 1
    /\ lazy = TRUE
    /\ whole = <<>>
    /\ budget = MaxDriverReads
    /\ fails = MaxFails
    /\ eisdir \in BOOLEAN

Spec == Init /\ [][Next]_vars

SpecTape == InitTape /\ [][Next]_vars

\* The process is sequential and nothing holds it up: when it has a next
\* step it takes it (a blocking read() returns).
SpecLive == InitLive /\ [][Next]_vars /\ WF_vars(Next)

----------------------------------------------------------------------------
(* The claims. *)

\* use_opts and main have just printed the line of a source: the history
\* variables still describe its scan.
Reported == pc = "loop" /\ out # <<>>
Last == out[Len(out)]

\* C1: when every read of a scan succeeded and the mode contains LINES, the
\* line count printed for the source is the number of 0x0A bytes the reads
\* delivered (a 0x0D or an unterminated last line adds nothing).
C1_LinesAreNewlines ==
    (Reported /\ nfail = 0 /\ "lines" \in DOMAIN Last.cols)
        => Last.cols["lines"] = gnl

\* C1 witness: count_lines_and_bytes, promoted to the long path, has
\* reported the lines of a stream that holds other bytes than 0x0A too.
C1_Witness ==
    /\ Reported
    /\ nfail = 0
    /\ strategy = "count_lines_and_bytes"
    /\ expect_long
    /\ nreads >= 4
    /\ "lines" \in DOMAIN Last.cols
    /\ Last.cols["lines"] = gnl
    /\ gnl >= 6
    /\ gsum > gnl

\* C2: when the mode contains WORDS, the word count printed for the source
\* is the number of maximal runs of non-whitespace in the stream: the
\* positions that hold a non-whitespace character and follow the start of
\* the stream or a whitespace character.
C2_WordsAreRuns ==
    (Reported /\ "words" \in DOMAIN Last.cols) => Last.cols["words"] = gruns

\* C2 witness: a stream of a blank, a newline and a byte above 0x7f has been
\* scanned and its word count reported.
C2_Witness ==
    /\ Reported
    /\ "words" \in DOMAIN Last.cols
    /\ Len(whole) = 3
    /\ whole[1] = 32
    /\ whole[2] = 10
    /\ whole[3] = 227
    /\ Last.cols["words"] = 1
    /\ gws = FALSE

\* C3: when the mode reports BYTES, the byte count printed for the source is
\* the st_size of a regular file of positive size, and otherwise the sum of
\* the lengths of the blocks the reads delivered.
C3_Bytes ==
    (Reported /\ "bytes" \in DOMAIN Last.cols)
        => Last.cols["bytes"] = IF HasSize(st) THEN st.size ELSE gsum

\* The counts a strategy leaves when one read() delivers the whole stream.
WholeRead(f, stat, data) ==
    IF f = "count_all"
    THEN count_all_leave(
             IF data = <<>> THEN count_all_enter(ZeroInfo, stat)
             ELSE count_all_pass(count_all_enter(ZeroInfo, stat),
                                 Len(data), data)).li
    ELSE IF f = "count_bytes"
    THEN (IF data = <<>> \/ HasSize(stat)
          THEN count_bytes_enter(ZeroInfo, stat)
          ELSE count_bytes_pass(count_bytes_enter(ZeroInfo, stat),
                                Len(data), data)).li
    ELSE IF f = "count_lines_and_bytes"
    THEN count_lines_and_bytes_leave(
             IF data = <<>> THEN count_lines_and_bytes_enter(ZeroInfo, stat)
             ELSE count_lines_and_bytes_pass(
                      count_lines_and_bytes_enter(ZeroInfo, stat),
                      Len(data), data)).li
    ELSE (IF data = <<>> THEN count_words_enter(ZeroInfo, stat)
          ELSE count_words_pass(count_words_enter(ZeroInfo, stat),
                                Len(data), data)).li

\* C4: however the reads cut the content of a source into blocks, the counts
\* printed are those a single read of the whole content gives.
C4_ChunkingInvariant ==
    (Reported /\ ~lazy /\ nfail = 0)
        => Last.cols = use_opts_after(lc, WholeRead(strategy, st, whole)).cols

\* C4 witness: the three bytes 0xE3 0x80 0x80 arrived in three reads, cut
\* after the first and after the second byte, under a strategy that counts
\* words.
C4_Witness ==
    /\ Reported
    /\ ~lazy
    /\ whole = <<227, 128, 128>>
    /\ nreads = 3
    /\ "words" \in DOMAIN Last.cols
    /\ Last.cols["words"] = 1

\* C5: a read() that returns -1 ends the scan and the process: no counter
\* takes the return value, no further read is issued, nothing is printed for
\* the source, and the exit status is not 0.
C5_FailedReadIsFatal ==
    nfail > 0 =>
        /\ pc = "exit"
        /\ status # "ok"
        /\ sum_bytes >= 0
        /\ li.num_bytes >= 0
        /\ Len(out) < scanned

RECURSIVE SumCol(_, _)
SumCol(i, c) ==
    IF i = 0 THEN 0
    ELSE SumCol(i - 1, c) + (IF out[i].kind = "file" THEN out[i].cols[c] ELSE 0)

TotalLines == {i \in DOMAIN out : out[i].kind = "total"}

Enabled(conf) ==
    {c \in {"lines", "words", "bytes"} :
        \/ c = "lines" /\ conf.opt_lines
        \/ c = "words" /\ conf.opt_words
        \/ c = "bytes" /\ conf.opt_bytes}

\* C6: a total line is printed only by a run on two or more file arguments
\* that scanned them all, as the last line; it follows one line per file,
\* carries the enabled counters, and each is the sum of that column over
\* the lines of the files.  A run on standard input or on one file prints
\* no total line.
C6_Total ==
    /\ TotalLines # {} => (pc = "exit" /\ status = "ok" /\ nargs >= 2)
    /\ (pc = "exit" /\ status = "ok" /\ nargs <= 1) => TotalLines = {}
    /\ (pc = "exit" /\ status = "ok" /\ nargs >= 2) =>
          /\ Len(out) = nargs + 1
          /\ TotalLines = {nargs + 1}
          /\ DOMAIN Last.cols = Enabled(lc)
          /\ \A i \in 1..nargs :
                out[i].kind = "file" /\ DOMAIN out[i].cols = DOMAIN Last.cols
          /\ \A c \in DOMAIN Last.cols : Last.cols[c] = SumCol(nargs, c)

\* C6 witness: two files with different counts and their total.
C6_Witness ==
    /\ pc = "exit"
    /\ status = "ok"
    /\ nargs = 2
    /\ Len(out) = 3
    /\ flags = [opt_bytes |-> TRUE, opt_lines |-> TRUE, opt_words |-> FALSE]
    /\ out[1].cols["lines"] = 1
    /\ out[2].cols["lines"] = 2
    /\ out[1].cols["bytes"] = 2
    /\ out[2].cols["bytes"] = 3
    /\ Last.kind = "total"
    /\ Last.cols["lines"] = 3
    /\ Last.cols["bytes"] = 5

\* C7: when a file argument is "-", the diagnostic is printed, the exit
\* status is not 0, and no source was scanned and nothing printed.
C7_DashPrintsNothing ==
    errmsg = "lc: invalid option prefix." =>
        /\ pc = "exit"
        /\ status = "failure"
        /\ out = <<>>
        /\ scanned = 0

\* C8: when open() fails on file argument k, the process has exited with a
\* failure status: k files were opened, the k-1 before it were scanned and
\* printed, and no total line was printed.
C8_OpenFailureStops ==
    errmsg = "arg: No such file or directory" =>
        /\ pc = "exit"
        /\ status = "failure"
        /\ opened = nargs - argc
        /\ scanned = opened - 1
        /\ Len(out) = scanned
        /\ TotalLines = {}

\* C8 witness: the second of two file arguments could not be opened, after
\* the first was scanned and printed.
C8_Witness ==
    /\ errmsg = "arg: No such file or directory"
    /\ pc = "exit"
    /\ nargs = 2
    /\ argc = 0
    /\ opened = 2
    /\ scanned = 1
    /\ Len(out) = 1

\* The selection table: the strategy for a set of flags.
Table(F) ==
    IF F = {"bytes"} THEN "count_bytes"
    ELSE IF F \in {{"lines"}, {"lines", "bytes"}} THEN "count_lines_and_bytes"
    ELSE IF F = {"words"} THEN "count_words"
    ELSE "count_all"

\* C9: every scan runs the strategy the selection table gives for the flags
\* of the command line, the empty flag set counting as the full one; one
\* strategy is entered per source opened, and from the first scan on lc
\* holds the promoted flags.
C9_Selection ==
    LET F == IF Enabled(flags) = {} THEN {"lines", "words", "bytes"}
             ELSE Enabled(flags)
    IN  /\ scanned > 0 => (strategy = Table(F) /\ Enabled(lc) = F)
        /\ scanned = 0 => (strategy = "none" /\ lc = flags)
        /\ scanned <= opened
        /\ pc \in {"read", "ret"} => scanned = opened

\* C9 witness: no flag was given and the second source is scanned by
\* count_all.
C9_Witness ==
    /\ Enabled(flags) = {}
    /\ scanned = 2
    /\ pc = "read"
    /\ strategy = "count_all"
    /\ Enabled(lc) = {"lines", "words", "bytes"}

\* C10: in count_lines_and_bytes, after reads that all returned 1..MAXSIZE,
\* every buffer offset a pass touched lies in 0..MAXSIZE-1.
C10_BufferInBounds ==
    (strategy = "count_lines_and_bytes" /\ nfail = 0)
        => (acc.lo >= 0 /\ acc.hi <= MAXSIZE - 1)

\* C11: no strategy closes the descriptor it is given: when a scan has
\* returned to use_opts the descriptor is still open, and close() is never
\* issued on a descriptor that is already closed.
C11_DriverAloneCloses ==
    /\ pc = "ret" => fd = "open"
    /\ ebadf = 0

\* C12: in count_lines_and_bytes, when every read succeeded, the promotion
\* to the long path changes only which loop runs: num_lines and sum_bytes
\* are those the bytewise path gives when it is taken for every block, the
\* byte count left at the return is the one the bytewise sum gives, and the
\* scan is not ended by a signal (a bytewise pass over 1..MAXSIZE bytes
\* stays in the buffer).
C12_PromotionKeepsResult ==
    (strategy = "count_lines_and_bytes" /\ nfail = 0) =>
        /\ status # "signal"
        /\ pc \in {"read", "ret"} =>
              /\ li.num_lines = bw.num_lines
              /\ sum_bytes = bw.sum_bytes
        /\ pc = "ret" =>
              li.num_bytes = IF HasSize(st) THEN st.size ELSE bw.sum_bytes

\* C13: in mode {LINES, WORDS, BYTES} the counts printed for a source are the
\* lines count_lines_and_bytes, the words count_words and the bytes
\* count_bytes give for the same content and the same fstat() answer.
C13_AllAgreesWithSingles ==
    (Reported /\ ~lazy /\ nfail = 0
       /\ DOMAIN Last.cols = {"lines", "words", "bytes"}) =>
        /\ Last.cols["lines"] =
              WholeRead("count_lines_and_bytes", st, whole).num_lines
        /\ Last.cols["words"] = WholeRead("count_words", st, whole).num_words
        /\ Last.cols["bytes"] = WholeRead("count_bytes", st, whole).num_bytes

\* C13 witness: count_all has reported 1 line, 2 words and 3 bytes for the
\* content "a\na" of a source that is not a regular file.
C13_Witness ==
    /\ Reported
    /\ ~lazy
    /\ whole = <<97, 10, 97>>
    /\ ~st.reg
    /\ DOMAIN Last.cols = {"lines", "words", "bytes"}
    /\ Last.cols["lines"] = 1
    /\ Last.cols["words"] = 2
    /\ Last.cols["bytes"] = 3

\* C14 (as stated): count_all never increments lines on a 0x0A byte, so
\* its line count stays 0 whatever the content.
C14_NewlinesNeverCounted ==
    (strategy = "count_all" /\ pc \in {"read", "ret"}) => li.num_lines = 0

\* C14 (amended): count_all increments lines once for every 0x0A byte: 0x0A
\* is not is_print, so it never enters the fast path (whose newline test is
\* dead code) and is counted in the decoder branch.  At every point of the
\* scan num_lines is the number of 0x0A bytes delivered so far.
C14_NewlinesCounted ==
    (strategy = "count_all" /\ pc \in {"read", "ret"}) => li.num_lines = gnl

\* C14 witness: count_all has reported 2 lines for the ASCII content
\* "a\n\n".
C14_Witness ==
    /\ Reported
    /\ strategy = "count_all"
    /\ whole = <<97, 10, 10>>
    /\ "lines" \in DOMAIN Last.cols
    /\ Last.cols["lines"] = 2

\* C15: in count_all and count_words, for every block the next read can
\* deliver, every cursor position p in it and either value of have_space:
\* when the byte at p goes to the decoder and mbrtowc() returns 0, -1 or -2,
\* the loop goes on exactly as from p + 1 with the byte taken for
\* non-whitespace (have_space cleared, a word counted if it was set, no
\* line counted) and the decoder state as mbrtowc() left it.
C15_DecoderErrorIsOneByteOfWord ==
    (pc = "read" /\ ~lazy /\ strategy \in WordStrategies) =>
        \A k \in 1..Min(MAXSIZE, Len(whole) - pos) :
            LET buf == SubSeq(whole, pos + 1, pos + k) IN
            \A p \in 1..k, hs \in BOOLEAN :
                LET c == SChar(buf[p])
                    left == k - p + 1
                    r == mbrtowc(buf[p], SubSeq(buf, p, k), mst)
                    a == [have_space |-> hs, mst |-> mst,
                          num_lines |-> li.num_lines,
                          num_words |-> li.num_words]
                    w == [have_space |-> hs, mst |-> mst,
                          num_words |-> li.num_words]
                IN  (~(is_ascii(c) /\ is_print(c)) /\ r.wlen \in {0, -1, -2})
                    => /\ count_all_block(buf, p, left, a) =
                          count_all_block(buf, p + 1, left - 1,
                              [a EXCEPT !.have_space = FALSE,
                                        !.mst = r.mst,
                                        !.num_words = IF hs THEN @ + 1 ELSE @])
                       /\ count_words_block(buf, p, left, w) =
                          count_words_block(buf, p + 1, left - 1,
                              [w EXCEPT !.have_space = FALSE,
                                        !.mst = r.mst,
                                        !.num_words = IF hs THEN @ + 1 ELSE @])

\* C15 witness: count_words has reported 2 words for the content 0x80,
\* blank, NUL, read in one block: mbrtowc() returned -1 on the first byte
\* and 0 on the last.
C15_Witness ==
    /\ Reported
    /\ strategy = "count_words"
    /\ whole = <<128, 32, 0>>
    /\ nreads = 1
    /\ mbrtowc(128, <<128, 32, 0>>, <<>>).wlen = -1
    /\ mbrtowc(0, <<0>>, <<>>).wlen = 0
    /\ Last.cols["words"] = 2

\* C16: no step of a scan (a pass of the read loop, or the end of the
\* stream) lowers num_lines, num_words, num_bytes or sum_bytes, whatever
\* read() returned.
C16_CountersNeverDecrease ==
    [][pc = "read" =>
          /\ ULE(li.num_lines, li'.num_lines)
          /\ ULE(li.num_words, li'.num_words)
          /\ ULE(li.num_bytes, li'.num_bytes)
          /\ ULE(sum_bytes, sum_bytes')]_vars

\* C17: a scan that follows other scans goes exactly as it would in a
\* process whose first source it is: during the scan have_space, the decoder
\* state, sum_bytes, expect_long and the counters the mode prints are those
\* of that process, and the counts printed for the source are the ones that
\* process prints.
C17_ScanIsFresh ==
    /\ pc \in {"read", "ret"} =>
          /\ have_space = fresh.have_space
          /\ mst = fresh.mst
          /\ sum_bytes = fresh.sum_bytes
          /\ expect_long = fresh.expect_long
          /\ use_opts_after(lc, li).cols =
                use_opts_after(lc, IF pc = "ret"
                                   THEN ScanLeave(strategy, fresh).li
                                   ELSE fresh.li).cols
    /\ Reported =>
          Last.cols = use_opts_after(Promote(flags),
                                     ScanLeave(strategy, fresh).li).cols

\* C17 witness: the second of two sources was scanned after a first one that
\* left other counts, a cleared have_space and non-zero totals behind.
C17_Witness ==
    /\ Reported
    /\ scanned = 2
    /\ Len(out) = 2
    /\ strategy = "count_all"
    /\ nfail = 0
    /\ DOMAIN Last.cols = {"lines", "words", "bytes"}
    /\ out[1].cols["lines"] = 1
    /\ out[1].cols["words"] = 2
    /\ out[1].cols["bytes"] = 3
    /\ Last.cols["lines"] = 0
    /\ Last.cols["words"] = 1
    /\ Last.cols["bytes"] = 1
    /\ li.words_total = 3

\* C18: every scan ends: once a strategy is in its read loop, it returns to
\* use_opts or the process exits.
C18_ScanEnds == (pc = "read") ~> (pc # "read")

====
